---------------------------- MODULE Spec2Model ----------------------------
(***************************************************************************)
(* Model of export/demo-package/utils/pythonTools/search_web_py.py, the    *)
(* command-line web-search stub.                                           *)
(*                                                                         *)
(* A Python str is a sequence of characters, a character a one-letter      *)
(* TLA+ string ("BS" names the backspace character, which TLA+ cannot      *)
(* write).  A Python value is a record [t |-> type name, v |-> payload].   *)
(* json.loads and json.dumps are modelled on the character level, as the   *)
(* decoder and the encoder of the standard library work, so that what is   *)
(* parsed and what is printed are texts, not values.                       *)
(*                                                                         *)
(* Input domain: texts over printable ASCII and JSON whitespace, without   *)
(* fractions, exponents, \uXXXX escapes and integers beyond a few digits.  *)
(***************************************************************************)
EXTENDS Integers, Sequences, FiniteSets, TLC

(***************************************************************************)
(* Python values                                                           *)
(***************************************************************************)
PyStr(cs)   == [t |-> "str", v |-> cs]
PyInt(n)    == [t |-> "int", v |-> n]
PyFloat(x)  == [t |-> "float", v |-> x]
PyBool(b)   == [t |-> "bool", v |-> b]
PyNone      == [t |-> "NoneType", v |-> "None"]
PyList(xs)  == [t |-> "list", v |-> xs]
PyDict(kvs) == [t |-> "dict", v |-> kvs]

\* bool(o): Python's truth value of o, as "not query" tests it
truthy(o) ==
    CASE o.t = "str"      -> Len(o.v) > 0
      [] o.t = "int"      -> o.v # 0
      [] o.t = "float"    -> TRUE
      [] o.t = "bool"     -> o.v
      [] o.t = "NoneType" -> FALSE
      [] o.t = "list"     -> Len(o.v) > 0
      [] o.t = "dict"     -> Len(o.v) > 0

\* d[k] = val on an insertion-ordered dict: a key already there keeps its place
dict_set(kvs, k, val) ==
    IF \E i \in 1..Len(kvs) : kvs[i].k = k
    THEN [i \in 1..Len(kvs) |-> IF kvs[i].k = k THEN [k |-> k, v |-> val] ELSE kvs[i]]
    ELSE Append(kvs, [k |-> k, v |-> val])

\* d.get(k, default)
dict_get(o, k, default) ==
    IF \E i \in 1..Len(o.v) : o.v[i].k = k
    THEN o.v[CHOOSE i \in 1..Len(o.v) : o.v[i].k = k].v
    ELSE default

(***************************************************************************)
(* The program's string literals                                           *)
(***************************************************************************)
K_error   == <<"e", "r", "r", "o", "r">>
K_query   == <<"q", "u", "e", "r", "y">>
K_results == <<"r", "e", "s", "u", "l", "t", "s">>
K_message == <<"m", "e", "s", "s", "a", "g", "e">>
ERR_NO_QUERY ==
    <<"N", "o", " ", "s", "e", "a", "r", "c", "h", " ", "q", "u", "e", "r", "y",
      " ", "p", "r", "o", "v", "i", "d", "e", "d">>
ERR_EMPTY_QUERY ==
    <<"E", "m", "p", "t", "y", " ", "s", "e", "a", "r", "c", "h", " ", "q", "u",
      "e", "r", "y">>
ERR_INVALID_JSON ==
    <<"I", "n", "v", "a", "l", "i", "d", " ", "J", "S", "O", "N", " ", "a", "r",
      "g", "u", "m", "e", "n", "t", "s">>
MSG_PLACEHOLDER ==
    <<"W", "e", "b", " ", "s", "e", "a", "r", "c", "h", " ", "f", "u", "n", "c",
      "t", "i", "o", "n", "a", "l", "i", "t", "y", " ", "n", "o", "t", " ", "y",
      "e", "t", " ", "i", "m", "p", "l", "e", "m", "e", "n", "t", "e", "d">>

(***************************************************************************)
(* json.loads: the decoder of the standard library                         *)
(***************************************************************************)
WHITESPACE == {" ", "\t", "\n", "\r"}
DIGITS == <<"0", "1", "2", "3", "4", "5", "6", "7", "8", "9">>
IsDigit(c) == \E d \in 1..10 : DIGITS[d] = c
DigitVal(c) == (CHOOSE d \in 1..10 : DIGITS[d] = c) - 1

\* the escapes of a JSON string (decoder.BACKSLASH)
BACKSLASH ==
    [c \in {"\"", "\\", "/", "b", "f", "n", "r", "t"} |->
        CASE c = "\"" -> "\""
          [] c = "\\" -> "\\"
          [] c = "/"  -> "/"
          [] c = "b"  -> "BS"
          [] c = "f"  -> "\f"
          [] c = "n"  -> "\n"
          [] c = "r"  -> "\r"
          [] c = "t"  -> "\t"]
\* the characters a strict decoder refuses unescaped inside a string
CONTROL == {"BS", "\f", "\n", "\r", "\t"}

Ok(val, end) == [ok |-> TRUE, val |-> val, end |-> end]
\* json.JSONDecodeError raised
Fail         == [ok |-> FALSE, val |-> PyNone, end |-> 0]

\* s[idx:idx+1], "" past the end (positions are 1-based)
CharAt(s, idx) == IF idx >= 1 /\ idx <= Len(s) THEN s[idx] ELSE ""
\* s[idx:idx+len(lit)] == lit
HasPrefix(s, idx, lit) ==
    /\ idx + Len(lit) - 1 <= Len(s)
    /\ SubSeq(s, idx, idx + Len(lit) - 1) = lit

RECURSIVE skip_ws(_, _)
\* WHITESPACE.match(s, idx).end()
skip_ws(s, idx) ==
    IF CharAt(s, idx) \in WHITESPACE THEN skip_ws(s, idx + 1) ELSE idx

RECURSIVE scanstring(_, _, _)
\* decoder.py_scanstring, strict: the string whose opening quote ends just
\* before `end`. STRINGCHUNK matches up to the next quote, backslash or
\* control character; acc is what the chunks before gave.
scanstring(s, end, acc) ==
    LET stops == {j \in end..Len(s) : s[j] \in {"\"", "\\"} \cup CONTROL} IN
    IF stops = {} THEN Fail
    ELSE
    LET j       == CHOOSE k \in stops : \A m \in stops : k <= m
        content == acc \o SubSeq(s, end, j - 1)
        esc     == CharAt(s, j + 1)
    IN  IF s[j] = "\"" THEN Ok(PyStr(content), j + 1)
        ELSE IF s[j] # "\\" THEN Fail
        ELSE IF esc \in DOMAIN BACKSLASH
        THEN scanstring(s, j + 2, Append(content, BACKSLASH[esc]))
        ELSE Fail

RECURSIVE scan_digits(_, _)
scan_digits(s, idx) ==
    IF IsDigit(CharAt(s, idx)) THEN scan_digits(s, idx + 1) ELSE idx

RECURSIVE int_of(_)
\* int(digits)
int_of(ds) ==
    IF Len(ds) = 0 THEN 0
    ELSE 10 * int_of(SubSeq(ds, 1, Len(ds) - 1)) + DigitVal(ds[Len(ds)])

\* NUMBER_RE.match(s, idx): -?(0|[1-9]\d*), an integer
match_number(s, idx) ==
    LET neg   == CharAt(s, idx) = "-"
        start == IF neg THEN idx + 1 ELSE idx
        c     == CharAt(s, start)
        e     == scan_digits(s, start)
        n     == int_of(SubSeq(s, start, e - 1))
    IN  IF c = "0" THEN Ok(PyInt(0), start + 1)
        ELSE IF IsDigit(c) THEN Ok(PyInt(IF neg THEN 0 - n ELSE n), e)
        ELSE Fail

Tnull   == <<"n", "u", "l", "l">>
Ttrue   == <<"t", "r", "u", "e">>
Tfalse  == <<"f", "a", "l", "s", "e">>
TNaN    == <<"N", "a", "N">>
TInf    == <<"I", "n", "f", "i", "n", "i", "t", "y">>
TNegInf == <<"-", "I", "n", "f", "i", "n", "i", "t", "y">>

RECURSIVE scan_once(_, _)
RECURSIVE object_pairs(_, _, _)
RECURSIVE array_values(_, _, _)

\* JSONObject: `end` is just after the opening brace
JSONObject(s, end) ==
    LET e1 == IF CharAt(s, end) # "\"" THEN skip_ws(s, end) ELSE end
        c  == CharAt(s, e1)
    IN  IF c = "}" THEN Ok(PyDict(<<>>), e1 + 1)
        ELSE IF c # "\"" THEN Fail
        ELSE object_pairs(s, e1 + 1, <<>>)

\* the loop of JSONObject: `end` is just after a key's opening quote
object_pairs(s, end, pairs) ==
    LET key == scanstring(s, end, <<>>) IN
    IF ~key.ok THEN Fail ELSE
    LET e1 == skip_ws(s, key.end) IN
    IF CharAt(s, e1) # ":" THEN Fail ELSE
    LET e2    == skip_ws(s, e1 + 1)
        value == scan_once(s, e2)
    IN
    IF ~value.ok THEN Fail ELSE
    LET e3     == skip_ws(s, value.end)
        c      == CharAt(s, e3)
        pairs2 == dict_set(pairs, key.val.v, value.val)
    IN
    IF c = "}" THEN Ok(PyDict(pairs2), e3 + 1)
    ELSE IF c # "," THEN Fail
    ELSE LET e4 == skip_ws(s, e3 + 1) IN
         IF CharAt(s, e4) # "\"" THEN Fail
         ELSE object_pairs(s, e4 + 1, pairs2)

\* JSONArray: `end` is just after the opening bracket
JSONArray(s, end) ==
    LET e1 == skip_ws(s, end) IN
    IF CharAt(s, e1) = "]" THEN Ok(PyList(<<>>), e1 + 1)
    ELSE array_values(s, e1, <<>>)

\* the loop of JSONArray
array_values(s, end, values) ==
    LET value == scan_once(s, end) IN
    IF ~value.ok THEN Fail ELSE
    LET e1      == skip_ws(s, value.end)
        c       == CharAt(s, e1)
        values2 == Append(values, value.val)
    IN
    IF c = "]" THEN Ok(PyList(values2), e1 + 1)
    ELSE IF c # "," THEN Fail
    ELSE array_values(s, skip_ws(s, e1 + 1), values2)

\* scanner.py_make_scanner._scan_once
scan_once(s, idx) ==
    LET nextchar == CharAt(s, idx) IN
    IF nextchar = "" THEN Fail
    ELSE IF nextchar = "\"" THEN scanstring(s, idx + 1, <<>>)
    ELSE IF nextchar = "{" THEN JSONObject(s, idx + 1)
    ELSE IF nextchar = "[" THEN JSONArray(s, idx + 1)
    ELSE IF nextchar = "n" /\ HasPrefix(s, idx, Tnull) THEN Ok(PyNone, idx + 4)
    ELSE IF nextchar = "t" /\ HasPrefix(s, idx, Ttrue) THEN Ok(PyBool(TRUE), idx + 4)
    ELSE IF nextchar = "f" /\ HasPrefix(s, idx, Tfalse) THEN Ok(PyBool(FALSE), idx + 5)
    ELSE IF match_number(s, idx).ok THEN match_number(s, idx)
    ELSE IF nextchar = "N" /\ HasPrefix(s, idx, TNaN) THEN Ok(PyFloat("nan"), idx + 3)
    ELSE IF nextchar = "I" /\ HasPrefix(s, idx, TInf) THEN Ok(PyFloat("inf"), idx + 8)
    ELSE IF nextchar = "-" /\ HasPrefix(s, idx, TNegInf) THEN Ok(PyFloat("-inf"), idx + 9)
    ELSE Fail

\* json.loads(s): JSONDecoder.decode
json_loads(s) ==
    LET r == scan_once(s, skip_ws(s, 1)) IN
    IF ~r.ok THEN Fail
    ELSE IF skip_ws(s, r.end) # Len(s) + 1 THEN Fail
    ELSE r

(***************************************************************************)
(* json.dumps: the encoder of the standard library, default options        *)
(***************************************************************************)
\* encoder.ESCAPE_DCT on the model's characters
escape_char(c) ==
    CASE c = "\\" -> <<"\\", "\\">>
      [] c = "\"" -> <<"\\", "\"">>
      [] c = "BS" -> <<"\\", "b">>
      [] c = "\f" -> <<"\\", "f">>
      [] c = "\n" -> <<"\\", "n">>
      [] c = "\r" -> <<"\\", "r">>
      [] c = "\t" -> <<"\\", "t">>
      [] OTHER    -> <<c>>

RECURSIVE escape_all(_)
\* ESCAPE_ASCII.sub(replace, cs): the text up to the next character that
\* needs an escape is copied, the character replaced, and so on
escape_all(cs) ==
    LET hits == {j \in 1..Len(cs) : escape_char(cs[j]) # <<cs[j]>>} IN
    IF hits = {} THEN cs
    ELSE LET j == CHOOSE k \in hits : \A m \in hits : k <= m IN
         SubSeq(cs, 1, j - 1) \o escape_char(cs[j])
            \o escape_all(SubSeq(cs, j + 1, Len(cs)))

\* encoder.encode_basestring_ascii
encode_basestring_ascii(cs) == <<"\"">> \o escape_all(cs) \o <<"\"">>

RECURSIVE nat_repr(_)
nat_repr(n) ==
    IF n < 10 THEN <<DIGITS[n + 1]>>
    ELSE nat_repr(n \div 10) \o <<DIGITS[(n % 10) + 1]>>

\* int.__repr__
int_repr(n) == IF n < 0 THEN <<"-">> \o nat_repr(0 - n) ELSE nat_repr(n)

\* float.__repr__ with allow_nan, for the floats the decoder's constants give
float_repr(x) ==
    CASE x = "nan"  -> TNaN
      [] x = "inf"  -> TInf
      [] x = "-inf" -> TNegInf

RECURSIVE json_dumps(_)
RECURSIVE dumps_items(_, _)
RECURSIVE dumps_pairs(_, _)

\* the elements of a list from the i-th on, joined by ", "
dumps_items(xs, i) ==
    IF i > Len(xs) THEN <<>>
    ELSE (IF i > 1 THEN <<",", " ">> ELSE <<>>)
         \o json_dumps(xs[i]) \o dumps_items(xs, i + 1)

\* the items of a dict from the i-th on: "key": value, joined by ", "
dumps_pairs(kvs, i) ==
    IF i > Len(kvs) THEN <<>>
    ELSE (IF i > 1 THEN <<",", " ">> ELSE <<>>)
         \o encode_basestring_ascii(kvs[i].k) \o <<":", " ">>
         \o json_dumps(kvs[i].v) \o dumps_pairs(kvs, i + 1)

\* json.dumps(o)
json_dumps(o) ==
    CASE o.t = "str"      -> encode_basestring_ascii(o.v)
      [] o.t = "NoneType" -> Tnull
      [] o.t = "bool"     -> IF o.v THEN Ttrue ELSE Tfalse
      [] o.t = "int"      -> int_repr(o.v)
      [] o.t = "float"    -> float_repr(o.v)
      [] o.t = "list"     -> <<"[">> \o dumps_items(o.v, 1) \o <<"]">>
      [] o.t = "dict"     -> <<"{">> \o dumps_pairs(o.v, 1) \o <<"}">>

(***************************************************************************)
(* Exceptions                                                              *)
(***************************************************************************)
\* the base class of each exception class the program meets
BaseOf ==
    [c \in {"JSONDecodeError", "ValueError", "AttributeError", "IndexError",
            "LookupError", "Exception", "SystemExit", "BaseException"} |->
        CASE c = "JSONDecodeError" -> "ValueError"
          [] c = "ValueError"      -> "Exception"
          [] c = "AttributeError"  -> "Exception"
          [] c = "IndexError"      -> "LookupError"
          [] c = "LookupError"     -> "Exception"
          [] c = "Exception"       -> "BaseException"
          [] c = "SystemExit"      -> "BaseException"
          [] c = "BaseException"   -> "object"]

RECURSIVE issubclass(_, _)
issubclass(c, d) ==
    IF c = d THEN TRUE
    ELSE IF c \notin DOMAIN BaseOf THEN FALSE
    ELSE issubclass(BaseOf[c], d)

\* an exception: its class, str(e), and the status a SystemExit carries
NoExc            == [type |-> "none", msg |-> <<>>, code |-> 0]
SystemExit(code) == [type |-> "SystemExit", msg |-> int_repr(code), code |-> code]
\* what json.loads raises; the decoder's message names the place of the fault
JSONDecodeError  ==
    [type |-> "JSONDecodeError",
     msg  |-> <<"E", "x", "p", "e", "c", "t", "i", "n", "g">>,
     code |-> 0]
\* what sys.argv[1] raises on a command line without arguments
IndexError ==
    [type |-> "IndexError",
     msg  |-> <<"l", "i", "s", "t", " ", "i", "n", "d", "e", "x", " ", "o", "u",
                "t", " ", "o", "f", " ", "r", "a", "n", "g", "e">>,
     code |-> 0]

TypeName ==
    [t \in {"str", "int", "float", "bool", "NoneType", "list", "dict"} |->
        CASE t = "str"      -> <<"s", "t", "r">>
          [] t = "int"      -> <<"i", "n", "t">>
          [] t = "float"    -> <<"f", "l", "o", "a", "t">>
          [] t = "bool"     -> <<"b", "o", "o", "l">>
          [] t = "NoneType" -> <<"N", "o", "n", "e", "T", "y", "p", "e">>
          [] t = "list"     -> <<"l", "i", "s", "t">>
          [] t = "dict"     -> <<"d", "i", "c", "t">>]
\* what o.get raises on a value that is no dict; msg is str(e)
AttributeError(o) ==
    [type |-> "AttributeError",
     msg  |-> <<"'">> \o TypeName[o.t] \o
              <<"'", " ", "o", "b", "j", "e", "c", "t", " ", "h", "a", "s", " ",
                "n", "o", " ", "a", "t", "t", "r", "i", "b", "u", "t", "e", " ",
                "'", "g", "e", "t", "'">>,
     code |-> 0]

\* what the interpreter prints for an exception nobody caught
TRACEBACK == <<"T", "r", "a", "c", "e", "b", "a", "c", "k">>

(***************************************************************************)
(* Command lines                                                           *)
(***************************************************************************)
\* bounds
MaxLen  == 3
MaxRuns == 2

PROG == <<"s", "e", "a", "r", "c", "h", "_", "w", "e", "b", "_", "p", "y",
          ".", "p", "y">>

ShortChars == {"\"", "a", " ", "1", "0", "[", "]", "{", "}", ","}
\* every text of at most MaxLen characters of ShortChars
ShortTexts == UNION {[1..k -> ShortChars] : k \in 0..MaxLen}
\* texts of other shapes
OtherTexts ==
    { Tnull, Ttrue, Tfalse, TNaN, TInf, TNegInf,
      <<"n", "u", "l">>, <<"N", "a">>, <<"-">>, <<"-", "1">>, <<"-", "0">>,
      <<"-", " ", "1">>, <<"0", "1">>, <<"2", "5">>,
      <<"{", "}">>, <<"{", " ", "}">>, <<"{">>, <<"}">>, <<"{", "}", "}">>,
      <<"{", "\"", "q", "\"", ":", "1", "}">>,
      <<"{", "\"", "q", "\"", " ", ":", " ", "\"", "a", "\"", " ", "}">>,
      <<"{", "\"", "q", "\"", "1", "}">>,
      <<"{", "\"", "q", "\"", ":", "}">>,
      <<"{", "\"", "q", "\"", ":", "1", ",", "}">>,
      <<"{", "q", ":", "1", "}">>,
      <<"[", "1", ",", "1", "]">>, <<"[", "1", ",", "]">>, <<"[", ",", "]">>,
      <<"[", "1", " ", ",", " ", "n", "u", "l", "l", "]">>,
      <<"[", "{", "}", "]">>, <<"[", "1", " ", "1", "]">>,
      <<"\"", "\\", "\"", "\"">>, <<"\"", "\\", "\\", "\"">>,
      <<"\"", "\\", "n", "\"">>, <<"\"", "\\", "b", "\"">>,
      <<"\"", "\\", "q", "\"">>, <<"\"", "\\", "\"">>,
      <<"\"", "\t", "\"">>, <<"\"", "\n", "\"">>,
      <<"\t", "1", "\n">>, <<"\r", "\"", "a", "\"">>,
      <<"n", "o", "t", "-", "j", "s", "o", "n">>,
      <<"\"", "c", "a", "t", "s", "\"">> }
Values == ShortTexts \cup OtherTexts

\* {"query": v}
QueryObject(v) ==
    <<"{", "\"", "q", "u", "e", "r", "y", "\"", ":", " ">> \o v \o <<"}">>
\* {"query":"","query":v}: the key twice
TwiceObject(v) ==
    <<"{", "\"", "q", "u", "e", "r", "y", "\"", ":", "\"", "\"", ",",
      "\"", "q", "u", "e", "r", "y", "\"", ":">> \o v \o <<"}">>
\* {"Query": v, "q": "a"}: other keys only
OtherObject(v) ==
    <<"{", "\"", "Q", "u", "e", "r", "y", "\"", ":">> \o v \o
    <<",", " ", "\"", "q", "\"", ":", "\"", "a", "\"", "}">>

\* the first arguments
Texts ==
    Values \cup {QueryObject(v) : v \in Values}
           \cup {TwiceObject(v) : v \in OtherTexts}
           \cup {OtherObject(v) : v \in OtherTexts}
\* sys.argv: the program's name, then no, one or two arguments
Argvs ==
    {<<PROG>>} \cup {<<PROG, a>> : a \in Texts}
               \cup {<<PROG, a, b>> : a \in OtherTexts, b \in {<<>>, <<"\"", "a", "\"">>}}
\* the command lines of the repeated invocations
RunArgvs ==
    { <<PROG>>, <<PROG, <<>> >>, <<PROG, <<"[", "]">> >>, <<PROG, TNaN>>,
      <<PROG, <<"{", "}">> >>, <<PROG, <<"{", "}">>, <<"1">> >>,
      <<PROG, QueryObject(<<"\"", "a", "\"">>)>>,
      <<PROG, QueryObject(<<"\"", " ", "\"">>)>>,
      <<PROG, QueryObject(<<"1">>)>>, <<PROG, QueryObject(<<"\"">>)>>,
      <<PROG, QueryObject(<<"\"", "\"">>)>> }

(***************************************************************************)
(* The process                                                             *)
(***************************************************************************)
VARIABLES
    sys_argv,   \* the command line, sys.argv
    pc,         \* the line main() is at
    args,       \* main's local args
    query,      \* main's local query
    result,     \* main's local result
    exc,        \* the exception being raised or handled
    stdout,     \* the lines written to sys.stdout
    stderr,     \* the lines written to sys.stderr
    exit_code,  \* the process's exit status, -1 while it runs
    runs        \* the earlier invocations: command line, output, status

vars == <<sys_argv, pc, args, query, result, exc, stdout, stderr, exit_code, runs>>

\* a local that is not bound yet
UNBOUND == [t |-> "unbound", v |-> "unbound"]

\* {"error": msg}
ErrorPayload(msg) == PyDict(<<[k |-> K_error, v |-> PyStr(msg)]>>)

\* a fresh process started on a command line
Start(argv) ==
    /\ sys_argv = argv
    /\ pc = "L12"
    /\ args = UNBOUND
    /\ query = UNBOUND
    /\ result = UNBOUND
    /\ exc = NoExc
    /\ stdout = <<>>
    /\ stderr = <<>>
    /\ exit_code = -1

Init == (\E argv \in Argvs : Start(argv)) /\ runs = <<>>

\* mutant of line 12: if len(sys.argv) < 1
CheckArgv_OffByOne ==
    /\ pc = "L12"
    /\ pc' = IF Len(sys_argv) < 1 THEN "L13" ELSE "L17"
    /\ UNCHANGED <<sys_argv, args, query, result, exc, stdout, stderr, exit_code, runs>>

\* line 12: if len(sys.argv) < 2
CheckArgv ==
    /\ pc = "L12"
    /\ pc' = IF Len(sys_argv) < 2 THEN "L13" ELSE "L17"
    /\ UNCHANGED <<sys_argv, args, query, result, exc, stdout, stderr, exit_code, runs>>

\* line 13: print(json.dumps({"error": "No search query provided"}), file=sys.stderr)
PrintNoQuery ==
    /\ pc = "L13"
    /\ stderr' = Append(stderr, json_dumps(ErrorPayload(ERR_NO_QUERY)))
    /\ pc' = "L14"
    /\ UNCHANGED <<sys_argv, args, query, result, exc, stdout, exit_code, runs>>

\* line 14: sys.exit(1), outside the try statement
ExitNoQuery ==
    /\ pc = "L14"
    /\ exc' = SystemExit(1)
    /\ pc' = "uncaught"
    /\ UNCHANGED <<sys_argv, args, query, result, stdout, stderr, exit_code, runs>>

\* line 17: args = json.loads(sys.argv[1])
ParseArgs ==
    /\ pc = "L17"
    /\ IF Len(sys_argv) < 2
       THEN args' = args /\ pc' = "L34" /\ exc' = IndexError
       ELSE LET r == json_loads(sys_argv[2]) IN
            IF r.ok
            THEN args' = r.val /\ pc' = "L18" /\ exc' = exc
            ELSE args' = args /\ pc' = "L34" /\ exc' = JSONDecodeError
    /\ UNCHANGED <<sys_argv, query, result, stdout, stderr, exit_code, runs>>

\* line 18: query = args.get('query', '')
GetQuery ==
    /\ pc = "L18"
    /\ IF args.t = "dict"
       THEN query' = dict_get(args, K_query, PyStr(<<>>)) /\ pc' = "L20" /\ exc' = exc
       ELSE query' = query /\ pc' = "L34" /\ exc' = AttributeError(args)
    /\ UNCHANGED <<sys_argv, args, result, stdout, stderr, exit_code, runs>>

\* mutant of line 20: if query is None
TestQuery_IsNone ==
    /\ pc = "L20"
    /\ pc' = IF query = PyNone THEN "L21" ELSE "L26"
    /\ UNCHANGED <<sys_argv, args, query, result, exc, stdout, stderr, exit_code, runs>>

\* mutant of line 20: if query == ''
TestQuery_EmptyString ==
    /\ pc = "L20"
    /\ pc' = IF query = PyStr(<<>>) THEN "L21" ELSE "L26"
    /\ UNCHANGED <<sys_argv, args, query, result, exc, stdout, stderr, exit_code, runs>>

\* line 20: if not query
TestQuery ==
    /\ pc = "L20"
    /\ pc' = IF ~truthy(query) THEN "L21" ELSE "L26"
    /\ UNCHANGED <<sys_argv, args, query, result, exc, stdout, stderr, exit_code, runs>>

\* line 21: print(json.dumps({"error": "Empty search query"}), file=sys.stderr)
PrintEmptyQuery ==
    /\ pc = "L21"
    /\ stderr' = Append(stderr, json_dumps(ErrorPayload(ERR_EMPTY_QUERY)))
    /\ pc' = "L22"
    /\ UNCHANGED <<sys_argv, args, query, result, exc, stdout, exit_code, runs>>

\* line 22: sys.exit(1), inside the try statement: the except clauses see it
ExitEmptyQuery ==
    /\ pc = "L22"
    /\ exc' = SystemExit(1)
    /\ pc' = "L34"
    /\ UNCHANGED <<sys_argv, args, query, result, stdout, stderr, exit_code, runs>>

\* mutant of line 27: "query": args
BuildResult_ArgsAsQuery ==
    /\ pc = "L26"
    /\ result' = PyDict(<<[k |-> K_query, v |-> args],
                          [k |-> K_results, v |-> PyList(<<>>)],
                          [k |-> K_message, v |-> PyStr(MSG_PLACEHOLDER)]>>)
    /\ pc' = "L32"
    /\ UNCHANGED <<sys_argv, args, query, exc, stdout, stderr, exit_code, runs>>

\* mutant of line 28: "results" holds what earlier invocations left in a cache
BuildResult_Cached ==
    /\ pc = "L26"
    /\ result' = PyDict(<<[k |-> K_query, v |-> query],
                          [k |-> K_results,
                           v |-> PyList([i \in 1..Len(runs) |-> PyInt(runs[i].code)])],
                          [k |-> K_message, v |-> PyStr(MSG_PLACEHOLDER)]>>)
    /\ pc' = "L32"
    /\ UNCHANGED <<sys_argv, args, query, exc, stdout, stderr, exit_code, runs>>

\* lines 26-30: result = {"query": query, "results": [], "message": ...}
BuildResult ==
    /\ pc = "L26"
    /\ result' = PyDict(<<[k |-> K_query, v |-> query],
                          [k |-> K_results, v |-> PyList(<<>>)],
                          [k |-> K_message, v |-> PyStr(MSG_PLACEHOLDER)]>>)
    /\ pc' = "L32"
    /\ UNCHANGED <<sys_argv, args, query, exc, stdout, stderr, exit_code, runs>>

\* line 32: print(json.dumps(result)); the try statement and main end
PrintResult ==
    /\ pc = "L32"
    /\ stdout' = Append(stdout, json_dumps(result))
    /\ pc' = "return"
    /\ UNCHANGED <<sys_argv, args, query, result, exc, stderr, exit_code, runs>>

\* mutant of line 34: the clause stands after "except Exception" and never
\* gets an exception
ExceptJSONDecodeError_Shadowed ==
    /\ pc = "L34"
    /\ pc' = "L37"
    /\ UNCHANGED <<sys_argv, args, query, result, exc, stdout, stderr, exit_code, runs>>

\* line 34: except json.JSONDecodeError
ExceptJSONDecodeError ==
    /\ pc = "L34"
    /\ pc' = IF issubclass(exc.type, "JSONDecodeError") THEN "L35" ELSE "L37"
    /\ UNCHANGED <<sys_argv, args, query, result, exc, stdout, stderr, exit_code, runs>>

\* mutant of line 35: print without file=sys.stderr
PrintInvalidJSON_ToStdout ==
    /\ pc = "L35"
    /\ stdout' = Append(stdout, json_dumps(ErrorPayload(ERR_INVALID_JSON)))
    /\ pc' = "L36"
    /\ UNCHANGED <<sys_argv, args, query, result, exc, stderr, exit_code, runs>>

\* line 35: print(json.dumps({"error": "Invalid JSON arguments"}), file=sys.stderr)
PrintInvalidJSON ==
    /\ pc = "L35"
    /\ stderr' = Append(stderr, json_dumps(ErrorPayload(ERR_INVALID_JSON)))
    /\ pc' = "L36"
    /\ UNCHANGED <<sys_argv, args, query, result, exc, stdout, exit_code, runs>>

\* line 36: sys.exit(1), inside a handler: no except clause sees it
ExitInvalidJSON ==
    /\ pc = "L36"
    /\ exc' = SystemExit(1)
    /\ pc' = "uncaught"
    /\ UNCHANGED <<sys_argv, args, query, result, stdout, stderr, exit_code, runs>>

\* mutant of line 37: except ValueError as e
ExceptException_ValueErrorOnly ==
    /\ pc = "L37"
    /\ pc' = IF issubclass(exc.type, "ValueError") THEN "L38" ELSE "uncaught"
    /\ UNCHANGED <<sys_argv, args, query, result, exc, stdout, stderr, exit_code, runs>>

\* mutant of line 37: except BaseException as e
ExceptException_BaseException ==
    /\ pc = "L37"
    /\ pc' = IF issubclass(exc.type, "BaseException") THEN "L38" ELSE "uncaught"
    /\ UNCHANGED <<sys_argv, args, query, result, exc, stdout, stderr, exit_code, runs>>

\* line 37: except Exception as e; an exception it does not match leaves main
ExceptException ==
    /\ pc = "L37"
    /\ pc' = IF issubclass(exc.type, "Exception") THEN "L38" ELSE "uncaught"
    /\ UNCHANGED <<sys_argv, args, query, result, exc, stdout, stderr, exit_code, runs>>

\* line 38: print(json.dumps({"error": str(e)}), file=sys.stderr)
PrintException ==
    /\ pc = "L38"
    /\ stderr' = Append(stderr, json_dumps(ErrorPayload(exc.msg)))
    /\ pc' = "L39"
    /\ UNCHANGED <<sys_argv, args, query, result, exc, stdout, exit_code, runs>>

\* line 39: sys.exit(1), inside a handler
ExitException ==
    /\ pc = "L39"
    /\ exc' = SystemExit(1)
    /\ pc' = "uncaught"
    /\ UNCHANGED <<sys_argv, args, query, result, stdout, stderr, exit_code, runs>>

\* line 42: main() is over. It returned: status 0. SystemExit left it: its code.
\* Another exception left it: the interpreter prints a traceback, status 1.
Terminate ==
    /\ pc \in {"return", "uncaught"}
    /\ pc' = "exited"
    /\ IF pc = "return" THEN exit_code' = 0 /\ stderr' = stderr
       ELSE IF exc.type = "SystemExit" THEN exit_code' = exc.code /\ stderr' = stderr
       ELSE exit_code' = 1 /\ stderr' = Append(stderr, TRACEBACK)
    /\ UNCHANGED <<sys_argv, args, query, result, exc, stdout, runs>>

\* what an invocation leaves behind
Outcome ==
    [argv |-> sys_argv, stdout |-> stdout, stderr |-> stderr, code |-> exit_code]

\* lines 41-42: the program is run again, a new process
Invoke ==
    /\ pc = "exited"
    /\ Len(runs) < MaxRuns
    /\ runs' = Append(runs, Outcome)
    /\ \E argv \in RunArgvs :
        /\ sys_argv' = argv
        /\ pc' = "L12"
        /\ args' = UNBOUND
        /\ query' = UNBOUND
        /\ result' = UNBOUND
        /\ exc' = NoExc
        /\ stdout' = <<>>
        /\ stderr' = <<>>
        /\ exit_code' = -1

Step ==
    \/ CheckArgv
    \/ PrintNoQuery
    \/ ExitNoQuery
    \/ ParseArgs
    \/ GetQuery
    \/ TestQuery
    \/ PrintEmptyQuery
    \/ ExitEmptyQuery
    \/ BuildResult
    \/ PrintResult
    \/ ExceptJSONDecodeError
    \/ PrintInvalidJSON
    \/ ExitInvalidJSON
    \/ ExceptException
    \/ PrintException
    \/ ExitException
    \/ Terminate

Next == Step

\* one invocation, on any command line
Spec == Init /\ [][Next]_vars

InitRuns == (\E argv \in RunArgvs : Start(argv)) /\ runs = <<>>
NextRuns == Step \/ Invoke
\* invocations one after the other
SpecRuns == InitRuns /\ [][NextRuns]_vars

(***************************************************************************)
(* The claims                                                              *)
(***************************************************************************)
\* the texts the specification quotes
TEXT_NO_QUERY ==
    <<"{", "\"", "e", "r", "r", "o", "r", "\"", ":", " ", "\"", "N", "o",
      " ", "s", "e", "a", "r", "c", "h", " ", "q", "u", "e", "r", "y", " ",
      "p", "r", "o", "v", "i", "d", "e", "d", "\"", "}">>
TEXT_INVALID_JSON ==
    <<"{", "\"", "e", "r", "r", "o", "r", "\"", ":", " ", "\"", "I", "n",
      "v", "a", "l", "i", "d", " ", "J", "S", "O", "N", " ", "a", "r", "g",
      "u", "m", "e", "n", "t", "s", "\"", "}">>
TEXT_EMPTY_QUERY ==
    <<"{", "\"", "e", "r", "r", "o", "r", "\"", ":", " ", "\"", "E", "m",
      "p", "t", "y", " ", "s", "e", "a", "r", "c", "h", " ", "q", "u", "e",
      "r", "y", "\"", "}">>
TEXT_CATS ==
    <<"{", "\"", "q", "u", "e", "r", "y", "\"", ":", " ", "\"", "c", "a",
      "t", "s", "\"", ",", " ", "\"", "r", "e", "s", "u", "l", "t", "s",
      "\"", ":", " ", "[", "]", ",", " ", "\"", "m", "e", "s", "s", "a",
      "g", "e", "\"", ":", " ", "\"", "W", "e", "b", " ", "s", "e", "a",
      "r", "c", "h", " ", "f", "u", "n", "c", "t", "i", "o", "n", "a", "l",
      "i", "t", "y", " ", "n", "o", "t", " ", "y", "e", "t", " ", "i", "m",
      "p", "l", "e", "m", "e", "n", "t", "e", "d", "\"", "}">>
CATS == <<"\"", "c", "a", "t", "s", "\"">>

Exited      == pc = "exited"
HasArgument == Len(sys_argv) >= 2
\* what the first argument decodes to
Decoded     == json_loads(sys_argv[2])
\* the first argument is valid JSON
ValidJSON   == HasArgument /\ Decoded.ok
\* the first argument is a JSON object
IsObject    == ValidJSON /\ Decoded.val.t = "dict"
HasKey(o, k)  == \E i \in 1..Len(o.v) : o.v[i].k = k
FieldOf(o, k) == o.v[CHOOSE i \in 1..Len(o.v) : o.v[i].k = k].v
HasQuery    == IsObject /\ HasKey(Decoded.val, K_query)
\* a query string that is not empty
IsNonEmptyString(o) == o.t = "str" /\ o.v # <<>>
\* a value that counts as empty: "", [], {}, null, 0, false
IsEmptyValue(o) ==
    \/ o = PyStr(<<>>) \/ o = PyList(<<>>) \/ o = PyDict(<<>>)
    \/ o = PyNone \/ o = PyInt(0) \/ o = PyBool(FALSE)
\* the success payload for a query
Payload(q) ==
    PyDict(<<[k |-> K_query, v |-> q],
             [k |-> K_results, v |-> PyList(<<>>)],
             [k |-> K_message, v |-> PyStr(MSG_PLACEHOLDER)]>>)
\* a line is the JSON text of an object {"error": <a string>}
IsErrorLine(l) ==
    LET r == json_loads(l) IN
    /\ r.ok
    /\ r.val.t = "dict"
    /\ Len(r.val.v) = 1
    /\ r.val.v[1].k = K_error
    /\ r.val.v[1].v.t = "str"

\* C1: an invocation whose first argument is a JSON object with a non-empty
\* query string ends with status 0, nothing on the error stream, and on
\* standard output one line, the JSON text of {query: the parsed value,
\* results: [], message: the placeholder}.
C1_SuccessPayload ==
    (Exited /\ HasQuery /\ IsNonEmptyString(FieldOf(Decoded.val, K_query))) =>
        /\ exit_code = 0
        /\ stderr = <<>>
        /\ Len(stdout) = 1
        /\ json_loads(stdout[1]).ok
        /\ json_loads(stdout[1]).val = Payload(FieldOf(Decoded.val, K_query))
\* {"query": "cats"} has ended with the payload the specification quotes
C1_Witness ==
    /\ Exited
    /\ sys_argv = <<PROG, QueryObject(CATS)>>
    /\ stdout = <<TEXT_CATS>>
    /\ exit_code = 0

\* C2: without an argument the program never reaches the parse, writes
\* nothing to standard output, and ends with status 1 and the one line
\* {"error": "No search query provided"} on the error stream.
C2_NoArgument ==
    ~HasArgument =>
        /\ pc \in {"L12", "L13", "L14", "uncaught", "exited"}
        /\ args = UNBOUND
        /\ stdout = <<>>
        /\ Exited => (stderr = <<TEXT_NO_QUERY>> /\ exit_code = 1)
C2_Witness ==
    Exited /\ sys_argv = <<PROG>> /\ stderr = <<TEXT_NO_QUERY>>

C4_EmptyQuery ==
    (Exited /\ IsObject
        /\ (~HasKey(Decoded.val, K_query)
            \/ FieldOf(Decoded.val, K_query) = PyStr(<<>>))) =>
        /\ stderr = <<TEXT_EMPTY_QUERY>>
        /\ stdout = <<>>
        /\ exit_code = 1
\* {} has ended in the empty-query error, and so has {"query": ""}
C4_Witness ==
    /\ Exited
    /\ stderr = <<TEXT_EMPTY_QUERY>>
    /\ \/ sys_argv = <<PROG, <<"{", "}">> >>
       \/ sys_argv = <<PROG, QueryObject(<<"\"", "\"">>)>>

\* C5: at exit the status is 0 or 1; standard output is written exactly
\* when it is 0; the error stream is written exactly when it is 1, and what
\* is on it is an object {"error": <a string>}.
C5_StreamsMatchStatus ==
    Exited =>
        /\ exit_code \in {0, 1}
        /\ (stdout # <<>>) <=> (exit_code = 0)
        /\ (stderr # <<>>) <=> (exit_code = 1)
        /\ \A i \in 1..Len(stderr) : IsErrorLine(stderr[i])
C5_Witness ==
    /\ Exited
    /\ exit_code = 1
    /\ stderr # <<>>
    /\ stdout = <<>>
    /\ ValidJSON
\* C6: a first argument that is valid JSON but no object makes args.get fail;
\* the failure is caught: the invocation ends with status 1 by sys.exit, with
\* nothing on standard output and one line on the error stream, the object
\* {"error": <the failure's description>}.
C6_UnexpectedFailureCaught ==
    (Exited /\ ValidJSON /\ Decoded.val.t # "dict") =>
        /\ exit_code = 1
        /\ exc.type = "SystemExit"
        /\ stdout = <<>>
        /\ Len(stderr) = 1
        /\ IsErrorLine(stderr[1])
        /\ json_loads(stderr[1]).val = ErrorPayload(AttributeError(Decoded.val).msg)
\* [] has ended with the description of the failed attribute lookup
C6_Witness ==
    /\ Exited
    /\ sys_argv = <<PROG, <<"[", "]">> >>
    /\ Len(stderr) = 1
    /\ json_loads(stderr[1]).val.v[1].v.v =
         <<"'", "l", "i", "s", "t", "'", " ", "o", "b", "j", "e", "c", "t", " ",
           "h", "a", "s", " ", "n", "o", " ", "a", "t", "t", "r", "i", "b", "u",
           "t", "e", " ", "'", "g", "e", "t", "'">>

\* C7: in every success payload on standard output the query is a string,
\* results is an empty sequence and message is the placeholder text.
C7_PayloadQueryIsString ==
    (Exited /\ exit_code = 0) =>
        /\ Len(stdout) = 1
        /\ json_loads(stdout[1]).ok
        /\ LET payload == json_loads(stdout[1]).val IN
            /\ payload.t = "dict"
            /\ HasKey(payload, K_query)
            /\ FieldOf(payload, K_query).t = "str"
            /\ HasKey(payload, K_results)
            /\ FieldOf(payload, K_results) = PyList(<<>>)
            /\ HasKey(payload, K_message)
            /\ FieldOf(payload, K_message) = PyStr(MSG_PLACEHOLDER)

\* a string of whitespace characters only, the empty string included
IsBlank(o) == o.t = "str" /\ \A i \in 1..Len(o.v) : o.v[i] \in WHITESPACE
\* C8, as stated: a first argument that is valid JSON with the query missing
\* or blank (empty, or whitespace only) ends with status 1 and the one line
\* {"error": "Empty search query"} on the error stream.
C8_BlankQueryRejected ==
    (Exited /\ ValidJSON
        /\ (~IsObject \/ ~HasKey(Decoded.val, K_query)
            \/ IsBlank(FieldOf(Decoded.val, K_query)))) =>
        /\ stderr = <<TEXT_EMPTY_QUERY>>
        /\ exit_code = 1

\* C8, amended: a first argument that is a JSON object with the query missing
\* or empty (the empty string, or another value that counts as false: null,
\* false, 0, [], {}) ends with status 1 and the one line
\* {"error": "Empty search query"} on the error stream.
C8_EmptyQueryRejected ==
    (Exited /\ IsObject
        /\ (~HasKey(Decoded.val, K_query)
            \/ IsEmptyValue(FieldOf(Decoded.val, K_query)))) =>
        /\ stderr = <<TEXT_EMPTY_QUERY>>
        /\ stdout = <<>>
        /\ exit_code = 1
\* {"query": []} has ended in the empty-query error
C8_Witness ==
    /\ Exited
    /\ sys_argv = <<PROG, QueryObject(<<"[", "]">>)>>
    /\ stderr = <<TEXT_EMPTY_QUERY>>
    /\ exit_code = 1

Written == stdout \o stderr
\* how many lines main may still run from a line: every statement moves on,
\* there is no loop
Rank ==
    [l \in {"L12", "L13", "L14", "L17", "L18", "L20", "L21", "L22", "L26", "L32",
            "L34", "L35", "L36", "L37", "L38", "L39", "return", "uncaught",
            "exited"} |->
        CASE l = "exited"              -> 0
          [] l \in {"return", "uncaught"} -> 1
          [] l \in {"L14", "L36", "L39", "L32"} -> 2
          [] l \in {"L13", "L35", "L38", "L26"} -> 3
          [] l = "L37" -> 4
          [] l = "L34" -> 5
          [] l = "L22" -> 6
          [] l = "L21" -> 7
          [] l = "L20" -> 8
          [] l = "L18" -> 9
          [] l = "L17" -> 10
          [] l = "L12" -> 11]
\* C10: an invocation never writes more than one line and every line is a
\* JSON text; the exit of line 22 goes past both except clauses, so the
\* catch-all never prints for it; a print statement is only reached with
\* nothing written yet, so the error kinds exclude each other; every step
\* brings main nearer to its end, and at the end exactly one line has been
\* written.
C10_OnePayloadThenExit ==
    /\ [](Len(Written) <= 1)
    /\ [](\A i \in 1..Len(Written) : json_loads(Written[i]).ok)
    /\ []((pc \in {"L38", "L39"}) => exc.type # "SystemExit")
    /\ []((pc \in {"L13", "L21", "L32", "L35", "L38"}) => Written = <<>>)
    /\ [](Exited => Len(Written) = 1)
    /\ [][Rank[pc'] < Rank[pc]]_vars
\* the empty-query error has ended the invocation with its one line
C10_Witness ==
    /\ Exited
    /\ sys_argv = <<PROG, QueryObject(<<"0">>)>>
    /\ Written = <<TEXT_EMPTY_QUERY>>
    /\ exc = SystemExit(1)
=============================================================================
